---- MODULE Spec2Model ----
(***************************************************************************)
(* Model of the price comparison engine of the Cloud Analytics API Gateway *)
(* (src/app/compare.py, with the feed endpoints of src/app/aws.py and      *)
(* src/app/azure.py that it calls).                                        *)
(*                                                                         *)
(* Data encoding.                                                          *)
(*  - Optional[float]: a record [t, v]; t = "none" is None, t = "nan" is   *)
(*    the float NaN (float("nan") is a value float() can produce and       *)
(*    _fallback_zero tests for), t = "num" is the number v.  Amounts are   *)
(*    integers (a price in some fixed small unit).                         *)
(*  - str: the sequence of its chunks, the string being their              *)
(*    concatenation.  A chunk is one whitespace character or a word        *)
(*    without whitespace.  Optional[str] is [some, s].                     *)
(***************************************************************************)
EXTENDS Integers, Sequences, FiniteSets, TLC

\* call   : one invocation of a helper function (the helper specification)
\* pc     : where the request handler stands: "idle", the local variable whose
\*          client.get it awaits, or "done"
\* req    : the query parameters of the request being served
\* locals : the handler's local price variables bound so far
\* calls  : the provider queries issued for the request, in order
\* resp   : the response sent to the caller
VARIABLES call, pc, req, locals, calls, resp

vars == <<call, pc, req, locals, calls, resp>>

(***************************************************************************)
(* Bounds of the model.                                                    *)
(***************************************************************************)
\* longest list handed to _min_nonzero_or_none
MaxVals == 3
\* amounts range over -MaxAmount .. MaxAmount
MaxAmount == 2
\* longest region string, in chunks
MaxChunks == 3
\* size of a feed response body: an item with k price entries counts k + 1
MaxFeed == 4
\* page counts asked of an endpoint range over -1 .. MaxPagesAsked
MaxPagesAsked == 11
\* max_pages given to a feed page loop ranges over 1 .. MaxLoopPages
MaxLoopPages == 3
\* size of a PriceList: an element with k price dimensions counts k + 1
MaxRaw == 3

(***************************************************************************)
(* Optional[float]                                                         *)
(***************************************************************************)
None == [t |-> "none", v |-> 0]
NaN == [t |-> "nan", v |-> 0]
Num(n) == [t |-> "num", v |-> n]

Amounts == {Num(n) : n \in -MaxAmount .. MaxAmount}
\* what float() yields
Floats == Amounts \cup {NaN}
OptFloats == Floats \cup {None}

\* Python's  x < y  on floats: every comparison with NaN is False
Lt(x, y) == x.t = "num" /\ y.t = "num" /\ x.v < y.v

\* Python's  x > 0
GtZero(x) == x.t = "num" /\ x.v > 0

RECURSIVE PyMinFrom(_, _, _)
PyMinFrom(s, i, best) ==
  IF i > Len(s) THEN best
  ELSE PyMinFrom(s, i + 1, IF Lt(s[i], best) THEN s[i] ELSE best)

\* the builtin min() of a non-empty list: the first element, replaced by each
\* later element that compares less than the one kept
PyMin(s) == PyMinFrom(s, 2, s[1])

IsCandidate(v) == v.t /= "none" /\ GtZero(v)

MinIgnoringSign(vals) ==
  LET present == SelectSeq(vals, LAMBDA v : v.t /= "none")
  IN  IF present /= << >> THEN PyMin(present) ELSE None

_min_nonzero_or_none(vals) ==
  LET candidates == SelectSeq(vals, IsCandidate)
      present == SelectSeq(vals, LAMBDA v : v.t /= "none")
  IN  IF candidates /= << >> THEN PyMin(candidates)
      ELSE IF present /= << >> THEN PyMin(present)
      ELSE None

_fallback_zero(v) == IF v.t = "num" THEN v ELSE Num(0)

CheapestFromDisplayed(a, z) ==
  LET a0 == IF a.t = "num" THEN a ELSE Num(0)
      z0 == IF z.t = "num" THEN z ELSE Num(0)
  IN  IF Lt(a0, z0) THEN "AWS" ELSE IF Lt(z0, a0) THEN "Azure" ELSE "Same"

_cheapest(a, z) ==
  IF a.t = "none" /\ z.t = "none" THEN "Same"
  ELSE IF a.t = "none" THEN "Azure"
  ELSE IF z.t = "none" THEN "AWS"
  ELSE IF Lt(a, z) THEN "AWS"
  ELSE IF Lt(z, a) THEN "Azure"
  ELSE "Same"

(***************************************************************************)
(* str and the region mapper                                               *)
(***************************************************************************)
Whitespace == {" "}
Words == {"us-west-2", "westus2", "mars-1"}
Chunks == Whitespace \cup Words

Strings == UNION {[1 .. n -> Chunks] : n \in 0 .. MaxChunks}

NoStr == [some |-> FALSE, s |-> << >>]
Str(s) == [some |-> TRUE, s |-> s]
OptStrings == {NoStr} \cup {Str(s) : s \in Strings}

RECURSIVE lstrip(_)
lstrip(s) ==
  IF s /= << >> /\ Head(s) \in Whitespace THEN lstrip(Tail(s)) ELSE s

RECURSIVE rstrip(_)
rstrip(s) ==
  IF s /= << >> /\ s[Len(s)] \in Whitespace
  THEN rstrip(SubSeq(s, 1, Len(s) - 1)) ELSE s

\* str.strip()
strip(s) == rstrip(lstrip(s))

AWS_TO_AZURE_REGION ==
  [k \in {"us-east-1", "us-east-2", "us-west-1", "us-west-2", "ca-central-1",
          "eu-west-1", "eu-west-2", "eu-west-3", "eu-north-1", "eu-central-1",
          "ap-south-1", "ap-southeast-1", "ap-southeast-2", "ap-northeast-1",
          "ap-northeast-2", "ap-east-1", "sa-east-1"} |->
     CASE k = "us-east-1" -> "eastus"
       [] k = "us-east-2" -> "eastus2"
       [] k = "us-west-1" -> "westus"
       [] k = "us-west-2" -> "westus2"
       [] k = "ca-central-1" -> "canadacentral"
       [] k = "eu-west-1" -> "westeurope"
       [] k = "eu-west-2" -> "uksouth"
       [] k = "eu-west-3" -> "francecentral"
       [] k = "eu-north-1" -> "northeurope"
       [] k = "eu-central-1" -> "germanywestcentral"
       [] k = "ap-south-1" -> "centralindia"
       [] k = "ap-southeast-1" -> "southeastasia"
       [] k = "ap-southeast-2" -> "australiaeast"
       [] k = "ap-northeast-1" -> "japaneast"
       [] k = "ap-northeast-2" -> "koreacentral"
       [] k = "ap-east-1" -> "eastasia"
       [] k = "sa-east-1" -> "brazilsouth"]

\* AWS_TO_AZURE_REGION.get(key, key)
RegionLookup(key) ==
  IF Len(key) = 1 /\ key[1] \in DOMAIN AWS_TO_AZURE_REGION
  THEN <<AWS_TO_AZURE_REGION[key[1]]>>
  ELSE key

MapOverrideUnstripped(aws_region, azure_region) ==
  IF azure_region.some /\ azure_region.s /= << >> /\ strip(azure_region.s) /= << >>
  THEN azure_region.s
  ELSE RegionLookup(strip(aws_region))

map_azure_region(aws_region, azure_region) ==
  IF azure_region.some /\ azure_region.s /= << >> /\ strip(azure_region.s) /= << >>
  THEN strip(azure_region.s)
  ELSE RegionLookup(strip(aws_region))

(***************************************************************************)
(* The gateway's feed endpoints as compare.py sees them.                   *)
(*                                                                         *)
(* A response to client.get is [kind, status, body]: kind "raised" is a    *)
(* client.get that raised (the 30 s timeout of the AsyncClient, a refused  *)
(* connection) instead of returning; kind "http" is a response with its    *)
(* status code and, for status 200, the "items" of its JSON body.          *)
(*  - /aws/prices?raw=true: an item is the sequence, in iteration order    *)
(*    over terms.OnDemand and priceDimensions, of the pricePerUnit.USD     *)
(*    entries of its price dimensions.                                     *)
(*  - /azure/prices: an item is its retailPrice entry.                     *)
(* An entry is Absent (the key is missing or null) or a text.              *)
(***************************************************************************)
Absent == "<absent>"
AmountTexts == {"abc", "NaN", "-1", "0", "1", "2"}
Entries == {Absent} \cup AmountTexts

ValueError == [t |-> "error", v |-> 0]

\* float(text)
float(text) ==
  CASE text = "NaN" -> NaN
    [] text = "-1" -> Num(-1)
    [] text = "0" -> Num(0)
    [] text = "1" -> Num(1)
    [] text = "2" -> Num(2)
    [] OTHER -> ValueError

EntryLists(n) == UNION {[1 .. k -> Entries] : k \in 0 .. n}

\* the lists of items of total size at most n
RECURSIVE ItemLists(_)
ItemLists(n) ==
  IF n <= 0 THEN {<< >>}
  ELSE {<< >>} \cup
       UNION {{<<item>> \o rest : rest \in ItemLists(n - 1 - Len(item))} :
                item \in EntryLists(n - 1)}

AwsBodies == ItemLists(MaxFeed)
AzureBodies == EntryLists(MaxFeed)

FailureStatuses == {404, 500}

Raised == [kind |-> "raised", status |-> 0, body |-> << >>]
Http(status, body) == [kind |-> "http", status |-> status, body |-> body]

AwsResponses ==
  {Raised} \cup {Http(st, << >>) : st \in FailureStatuses}
           \cup {Http(200, b) : b \in AwsBodies}

AzureResponses ==
  {Raised} \cup {Http(st, << >>) : st \in FailureStatuses}
           \cup {Http(200, b) : b \in AzureBodies}

\* the inner loops of _min_price_from_aws over one item: a USD text that
\* float() rejects raises, and the except clause abandons the item, keeping
\* the prices appended so far
RECURSIVE AwsItemPrices(_)
AwsItemPrices(dims) ==
  IF dims = << >> THEN << >>
  ELSE IF Head(dims) = Absent THEN AwsItemPrices(Tail(dims))
  ELSE IF float(Head(dims)) = ValueError THEN << >>
  ELSE <<float(Head(dims))>> \o AwsItemPrices(Tail(dims))

RECURSIVE AwsPrices(_)
AwsPrices(items) ==
  IF items = << >> THEN << >>
  ELSE AwsItemPrices(Head(items)) \o AwsPrices(Tail(items))

RECURSIVE AzurePrices(_)
AzurePrices(items) ==
  IF items = << >> THEN << >>
  ELSE IF Head(items) = Absent \/ float(Head(items)) = ValueError
       THEN AzurePrices(Tail(items))
  ELSE <<float(Head(items))>> \o AzurePrices(Tail(items))

\* _min_price_from_aws, from the response of client.get on
_min_price_from_aws(r) ==
  IF r.status /= 200 THEN None ELSE _min_nonzero_or_none(AwsPrices(r.body))

_min_price_from_azure(r) ==
  IF r.status /= 200 THEN None ELSE _min_nonzero_or_none(AzurePrices(r.body))

\* what a call of _min_price_from_aws / _min_price_from_azure can do: raise,
\* or return a price, with the status of the response it saw
Outcome(r, price) == [kind |-> r.kind, status |-> r.status, price |-> price]

AwsOutcomes ==
  {Outcome(r, IF r.kind = "raised" THEN None ELSE _min_price_from_aws(r)) :
     r \in AwsResponses}

AzureOutcomes ==
  {Outcome(r, IF r.kind = "raised" THEN None ELSE _min_price_from_azure(r)) :
     r \in AzureResponses}

(***************************************************************************)
(* The helper functions, each applied to inputs drawn from bounded sets.   *)
(* call.done says whether the function has returned; call.ret is what it   *)
(* returned.                                                               *)
(***************************************************************************)
ValLists == UNION {[1 .. n -> OptFloats] : n \in 0 .. MaxVals}

Pending(fn, args) == [fn |-> fn, args |-> args, done |-> FALSE, ret |-> "pending"]

HelperCalls ==
  {Pending("_min_nonzero_or_none", [vals |-> l]) : l \in ValLists}
    \cup {Pending("_cheapest", [a |-> a, z |-> z]) : a \in OptFloats, z \in OptFloats}
    \cup {Pending("_fallback_zero", [v |-> v]) : v \in OptFloats}
    \cup {Pending("map_azure_region", [aws_region |-> x, azure_region |-> o]) :
            x \in Strings, o \in OptStrings}

Idle ==
  /\ pc = "idle"
  /\ req = [endpoint |-> "none"]
  /\ locals = << >>
  /\ calls = << >>
  /\ resp = [status |-> 0, aws |-> None, azure |-> None, cheapest |-> "",
             available |-> {}]

InitHelpers == call \in HelperCalls /\ Idle

Return(v) ==
  /\ call' = [call EXCEPT !.done = TRUE, !.ret = v]
  /\ UNCHANGED <<pc, req, locals, calls, resp>>

ApplyMinNonzero ==
  /\ ~call.done /\ call.fn = "_min_nonzero_or_none"
  /\ Return(_min_nonzero_or_none(call.args.vals))

ApplyCheapest ==
  /\ ~call.done /\ call.fn = "_cheapest"
  /\ Return(_cheapest(call.args.a, call.args.z))

ApplyFallbackZero ==
  /\ ~call.done /\ call.fn = "_fallback_zero"
  /\ Return(_fallback_zero(call.args.v))

ApplyMapRegion ==
  /\ ~call.done /\ call.fn = "map_azure_region"
  /\ Return(map_azure_region(call.args.aws_region, call.args.azure_region))

NextHelpers ==
  \/ ApplyMinNonzero
  \/ ApplyCheapest
  \/ ApplyFallbackZero
  \/ ApplyMapRegion

SpecHelpers == InitHelpers /\ [][NextHelpers]_vars

Returned(fn) == call.fn = fn /\ call.done

(***************************************************************************)
(* The comparison endpoints (compare.py, router /compare).                 *)
(***************************************************************************)
Endpoints ==
  {"service", "db-sql", "egress", "block-storage", "load-balancer", "dns",
   "az-coverage"}

NoText == [some |-> FALSE, s |-> ""]
Text(s) == [some |-> TRUE, s |-> s]

\* the source regions and overrides requests are made with
ReqRegions == {<<"us-west-2">>, <<"mars-1">>}
ReqOverrides == {NoStr, Str(<<"westus2", " ">>)}

\* the endpoints with an Azure SKU parameter (azure_sku, sku_name)
HasSku(endpoint) == endpoint \in {"service", "db-sql", "block-storage"}

\* a request: its endpoint and query parameters.  sku is the SKU parameter as
\* sent (NoText when omitted); the other facet parameters are left at their
\* defaults.
Requests ==
  {r \in [endpoint : Endpoints,
          service_type : {"vm", "storage", "archive"},
          region : ReqRegions,
          azure_region : ReqOverrides,
          sku : {NoText, Text(""), Text("P10")},
          max_pages : -1 .. MaxPagesAsked] :
     /\ r.endpoint /= "service" => r.service_type = "vm"
     /\ ~HasSku(r.endpoint) => r.sku = NoText}

PageLimitOfFeedEndpoints(endpoint) == 10

\* le= of the max_pages parameter
PageLimit(endpoint) == IF endpoint = "az-coverage" THEN 2 ELSE 5

\* FastAPI's validation of the declared parameters, before the handler runs
Valid(r) ==
  /\ r.max_pages >= 1
  /\ r.max_pages <= PageLimit(r.endpoint)
  /\ r.endpoint = "service" => r.service_type \in {"vm", "storage"}

\* the SKU parameter with the endpoint's default applied
SkuParam(r) ==
  IF r.sku.some THEN r.sku
  ELSE CASE r.endpoint = "service" -> Text("B1s")
         [] r.endpoint = "db-sql" -> Text("GP_Gen5_2")
         [] OTHER -> NoText

Query(to, service, region, max_pages, facets) ==
  [to |-> to, service |-> service, region |-> region, max_pages |-> max_pages,
   facets |-> facets]

\* the keyword arguments of the _min_price_from_aws call that binds local
AwsQuery(r, local) ==
  LET q(service, facets) == Query("aws", service, r.region, r.max_pages, facets)
  IN  CASE local = "aws_vm" -> q("AmazonEC2", {})
        [] local = "aws_s3" -> q("AmazonS3", {})
        [] r.endpoint = "service" /\ r.service_type = "vm" ->
             q("AmazonEC2", {<<"instance_type", "t3.micro">>,
                             <<"operating_system", "Linux">>})
        [] r.endpoint = "service" /\ r.service_type /= "vm" -> q("AmazonS3", {})
        [] r.endpoint = "db-sql" ->
             q("AmazonRDS", {<<"database_engine", "MySQL">>,
                             <<"deployment_option", "Single-AZ">>,
                             <<"license_model", "License included">>})
        [] r.endpoint = "egress" -> q("AmazonEC2", {})
        [] r.endpoint = "block-storage" ->
             q("AmazonEC2", {<<"volume_type", "gp3">>})
        [] r.endpoint = "load-balancer" -> q("AWSELB", {})
        [] r.endpoint = "dns" -> q("AmazonRoute53", {})

SkuFacet(r) == {<<"sku_name", SkuParam(r).s>>}

\* the keyword arguments of the _min_price_from_azure call that binds local
AzureQuery(r, local) ==
  LET az_region == map_azure_region(r.region, r.azure_region)
      q(service, facets) == Query("azure", service, az_region, r.max_pages, facets)
  IN  CASE local = "az_vm" -> q("Virtual%20Machines", {})
        [] local = "az_st" -> q("Storage", {})
        [] r.endpoint = "service" /\ r.service_type = "vm" ->
             q("Virtual%20Machines",
               IF local = "azure_price" THEN SkuFacet(r) ELSE {})
        [] r.endpoint = "service" /\ r.service_type /= "vm" -> q("Storage", {})
        [] r.endpoint = "db-sql" ->
             q("SQL%20Database", IF local = "azure_price" THEN SkuFacet(r) ELSE {})
        [] r.endpoint = "egress" -> q("Bandwidth", {})
        [] r.endpoint = "block-storage" ->
             q("Storage",
               IF SkuParam(r).some /\ SkuParam(r).s /= "" THEN SkuFacet(r) ELSE {})
        [] r.endpoint = "load-balancer" -> q("Load%20Balancer", {})
        [] r.endpoint = "dns" -> q("DNS", {})

(***************************************************************************)
(* The filters the feed endpoints build from a query (aws.py, azure.py).   *)
(* A filter is [Field, Value], Value the text as a sequence of chunks.     *)
(***************************************************************************)
\* a value as it stands in the URL
ChunksOf(s) == IF s = "" THEN << >> ELSE <<s>>

\* urllib's unquoting of a query value, on the service names compare.py sends
unquote(s) ==
  CASE s = "Virtual%20Machines" -> <<"Virtual", " ", "Machines">>
    [] s = "SQL%20Database" -> <<"SQL", " ", "Database">>
    [] s = "Load%20Balancer" -> <<"Load", " ", "Balancer">>
    [] OTHER -> ChunksOf(s)

\* the value a declared Optional[str] = Query(None) parameter gets from the
\* URL of q: None when the URL does not name it.  A name the endpoint does
\* not declare is never looked up.
Param(q, name) ==
  IF \E f \in q.facets : f[1] = name
  THEN Str(ChunksOf((CHOOSE f \in q.facets : f[1] = name)[2]))
  ELSE NoStr

PyTruthy(x) == x.some /\ x.s /= << >>

REGION_CODE_TO_LOCATION ==
  [k \in {"us-east-1", "us-east-2", "us-west-1", "us-west-2", "ca-central-1",
          "eu-central-1", "eu-west-1", "eu-west-2", "eu-west-3", "eu-north-1",
          "ap-south-1", "ap-southeast-1", "ap-southeast-2", "ap-northeast-1",
          "ap-northeast-2", "ap-east-1", "sa-east-1"} |->
     CASE k = "us-east-1" -> "US East (N. Virginia)"
       [] k = "us-east-2" -> "US East (Ohio)"
       [] k = "us-west-1" -> "US West (N. California)"
       [] k = "us-west-2" -> "US West (Oregon)"
       [] k = "ca-central-1" -> "Canada (Central)"
       [] k = "eu-central-1" -> "EU (Frankfurt)"
       [] k = "eu-west-1" -> "EU (Ireland)"
       [] k = "eu-west-2" -> "EU (London)"
       [] k = "eu-west-3" -> "EU (Paris)"
       [] k = "eu-north-1" -> "EU (Stockholm)"
       [] k = "ap-south-1" -> "Asia Pacific (Mumbai)"
       [] k = "ap-southeast-1" -> "Asia Pacific (Singapore)"
       [] k = "ap-southeast-2" -> "Asia Pacific (Sydney)"
       [] k = "ap-northeast-1" -> "Asia Pacific (Tokyo)"
       [] k = "ap-northeast-2" -> "Asia Pacific (Seoul)"
       [] k = "ap-east-1" -> "Asia Pacific (Hong Kong)"
       [] k = "sa-east-1" -> "South America (Sao Paulo)"]

to_location(val) ==
  IF ~PyTruthy(val) THEN NoStr
  ELSE LET v == strip(val.s)
       IN  Str(IF Len(v) = 1 /\ v[1] \in DOMAIN REGION_CODE_TO_LOCATION
               THEN <<REGION_CODE_TO_LOCATION[v[1]]>> ELSE v)

IsGiven(f) == PyTruthy(f.Value)

\* the filters of the parameters that are truthy, in the order of the ifs
Given(fs) ==
  LET given == SelectSeq(fs, IsGiven)
  IN  [k \in 1 .. Len(given) |-> [Field |-> given[k].Field, Value |-> given[k].Value.s]]

build_filters(location, instance_type, operating_system, tenancy, pre_installed_sw, capacity_status) ==
  Given(<<[Field |-> "location", Value |-> location],
          [Field |-> "instanceType", Value |-> instance_type],
          [Field |-> "operatingSystem", Value |-> operating_system],
          [Field |-> "tenancy", Value |-> tenancy],
          [Field |-> "preInstalledSw", Value |-> pre_installed_sw],
          [Field |-> "capacitystatus", Value |-> capacity_status]>>)

\* /aws/prices: the Filters it passes to get_products for the URL of q
AwsFilters(q) ==
  build_filters(to_location(Str(q.region)), Param(q, "instance_type"),
                Param(q, "operating_system"), Param(q, "tenancy"),
                Param(q, "pre_installed_sw"), Param(q, "capacity_status"))

\* /azure/prices: the terms of the $filter it sends for the URL of q
AzureFilters(q) ==
  Given(<<[Field |-> "serviceName", Value |-> Str(unquote(q.service))],
          [Field |-> "armRegionName", Value |-> Str(q.region)],
          [Field |-> "skuName", Value |-> Param(q, "sku_name")],
          [Field |-> "meterName", Value |-> Param(q, "meter_name")],
          [Field |-> "priceType", Value |-> Param(q, "price_type")],
          [Field |-> "currencyCode", Value |-> Param(q, "currency_code")]>>)

FeedFilters(q) == IF q.to = "aws" THEN AwsFilters(q) ELSE AzureFilters(q)

AwsAwaits == {"aws_price", "aws_vm", "aws_s3"}
AzureAwaits == {"azure_price", "azure_price_broad", "az_vm", "az_st"}

QueryFor(r, local) ==
  IF local \in AwsAwaits THEN AwsQuery(r, local) ELSE AzureQuery(r, local)

BroadensEverywhere(r) == TRUE

\* the handlers that query Azure again, without the SKU, when the query with
\* the SKU found no price
Broadens(r) ==
  \/ r.endpoint = "service" /\ r.service_type = "vm"
  \/ r.endpoint = "db-sql"

\* the local variable an await binds
LocalOf(await) == IF await = "azure_price_broad" THEN "azure_price" ELSE await

FirstAwait(r) == IF r.endpoint = "az-coverage" THEN "aws_vm" ELSE "aws_price"

NeverBroadens(r, await, l) ==
  CASE await = "aws_price" -> "azure_price"
    [] await = "aws_vm" -> "aws_s3"
    [] await = "aws_s3" -> "az_vm"
    [] await = "az_vm" -> "az_st"
    [] OTHER -> "done"

\* the await the handler reaches next, once await has returned and l are the
\* locals; "done" when it returns (or raises HTTPException) instead
NextAwait(r, await, l) ==
  CASE await = "aws_price" -> "azure_price"
    [] await = "azure_price" ->
         IF Broadens(r) /\ l["azure_price"] = None
         THEN "azure_price_broad" ELSE "done"
    [] await = "azure_price_broad" -> "done"
    [] await = "aws_vm" -> "aws_s3"
    [] await = "aws_s3" -> "az_vm"
    [] await = "az_vm" -> "az_st"
    [] await = "az_st" -> "done"

NoResponse == [status |-> 0, aws |-> None, azure |-> None, cheapest |-> "",
               available |-> {}]

\* a response without a ComparisonResult: 422 (validation), 404
\* (HTTPException), 500 (an exception the handler let through)
Failure(status) == [NoResponse EXCEPT !.status = status]

Result(aws, azure, cheapest) ==
  [NoResponse EXCEPT !.status = 200, !.aws = aws, !.azure = azure,
                     !.cheapest = cheapest]

PlainResultOrNotFound(aws_price, azure_price) ==
  IF aws_price = None /\ azure_price = None THEN Failure(404)
  ELSE Result(aws_price, azure_price, _cheapest(aws_price, azure_price))

\* compare_service, compare_egress, compare_dns
PlainResult(aws_price, azure_price) ==
  Result(aws_price, azure_price, _cheapest(aws_price, azure_price))

FallbackResultFromDisplayed(aws_price, azure_price) ==
  Result(_fallback_zero(aws_price), _fallback_zero(azure_price),
         _cheapest(_fallback_zero(aws_price), _fallback_zero(azure_price)))

\* compare_db_sql, compare_load_balancer
FallbackResult(aws_price, azure_price) ==
  Result(_fallback_zero(aws_price), _fallback_zero(azure_price),
         _cheapest(aws_price, azure_price))

\* compare_block_storage
BlockStorageResult(aws_price, azure_price) ==
  IF aws_price = None /\ azure_price = None THEN Failure(404)
  ELSE Result(aws_price, azure_price, _cheapest(aws_price, azure_price))

\* az_coverage
CoverageResult(l) ==
  [NoResponse EXCEPT !.status = 200,
                     !.available = {n \in DOMAIN l : l[n] /= None}]

\* what the handler returns once its last await has returned
Respond(r, l) ==
  CASE r.endpoint \in {"service", "egress", "dns"} ->
         PlainResult(l["aws_price"], l["azure_price"])
    [] r.endpoint \in {"db-sql", "load-balancer"} ->
         FallbackResult(l["aws_price"], l["azure_price"])
    [] r.endpoint = "block-storage" ->
         BlockStorageResult(l["aws_price"], l["azure_price"])
    [] r.endpoint = "az-coverage" -> CoverageResult(l)

\* an entry of calls: the query, the filters the feed endpoint derives from
\* it, how the call ended ("pending" until it does), the status it saw and
\* the price it returned
Issued(q) ==
  [q |-> q, filters |-> FeedFilters(q), kind |-> "pending", status |-> 0,
   price |-> None]

Init ==
  /\ call = [fn |-> "none"]
  /\ Idle

\* a request arrives: it is rejected by validation, or the handler runs up to
\* its first await
Receive ==
  /\ pc = "idle"
  /\ \E r \in Requests :
       /\ req' = r
       /\ IF Valid(r)
          THEN /\ pc' = FirstAwait(r)
               /\ calls' = <<Issued(QueryFor(r, FirstAwait(r)))>>
               /\ resp' = resp
          ELSE /\ pc' = "done"
               /\ calls' = calls
               /\ resp' = Failure(422)
  /\ UNCHANGED <<call, locals>>

\* the awaited client.get ends with outcome o, and the handler runs on to its
\* next await or to its end
Resume(o) ==
  LET n == Len(calls)
      ended == [calls EXCEPT ![n].kind = o.kind, ![n].status = o.status,
                             ![n].price = o.price]
  IN  IF o.kind = "raised"
      THEN /\ pc' = "done"
           /\ calls' = ended
           /\ resp' = Failure(500)
           /\ locals' = locals
      ELSE LET l == (LocalOf(pc) :> o.price) @@ locals
               next == NextAwait(req, pc, l)
           IN  /\ locals' = l
               /\ pc' = next
               /\ IF next = "done"
                  THEN calls' = ended /\ resp' = Respond(req, l)
                  ELSE calls' = Append(ended, Issued(QueryFor(req, next)))
                       /\ resp' = resp

AwsReturns ==
  /\ pc \in AwsAwaits
  /\ \E o \in AwsOutcomes : Resume(o)
  /\ UNCHANGED <<call, req>>

AzureReturns ==
  /\ pc \in AzureAwaits
  /\ \E o \in AzureOutcomes : Resume(o)
  /\ UNCHANGED <<call, req>>

Next ==
  \/ Receive
  \/ AwsReturns
  \/ AzureReturns

Spec == Init /\ [][Next]_vars

(***************************************************************************)
(* The page loops of the two feed endpoints: get_products_paginated        *)
(* (aws.py, behind /aws/prices) and fetch (azure.py, behind                *)
(* /azure/prices).  call is the frame of one invocation; every page        *)
(* request is one step, and call.log keeps the cursor each request was     *)
(* sent with and the page it got.                                          *)
(***************************************************************************)
\* max_pages of /aws/prices and /azure/prices is Query(1, ge=1, le=10)
FeedPageLimit == 10

Truthy(t) == t.some /\ t.s /= ""

\* what a page can carry: its items, and its cursor (NextToken,
\* NextPageLink), which is missing, empty or a continuation
PageItems == {<< >>, <<"a">>, <<"b">>, <<"a", "b">>}
Cursors == {NoText, Text(""), Text("next")}
FailedPage == [ok |-> FALSE, items |-> << >>, cursor |-> NoText]
FeedPages ==
  [ok : {TRUE}, items : PageItems, cursor : Cursors] \cup {FailedPage}

PrependItems(items, more) == more \o items

\* items.extend(...)
extend(items, more) == items \o more

LoopsWhileAtLimit(pages, max_pages) == pages <= max_pages

\* the page test of both loops: pages < max_pages
MorePages(pages, max_pages) == pages < max_pages

LoopFns == {"get_products_paginated", "fetch"}

\* the frame on entry: token = None for get_products_paginated, url = the
\* first page's address for fetch
Entered(fn, max_pages) ==
  [fn |-> fn, max_pages |-> max_pages, pages |-> 0, items |-> << >>,
   cursor |-> IF fn = "fetch" THEN Text("BASE?query") ELSE NoText,
   log |-> << >>, done |-> FALSE, raised |-> FALSE, ret |-> << >>]

LoopCalls ==
  {Entered(fn, n) : fn \in LoopFns,
                    n \in 1 .. IF MaxLoopPages < FeedPageLimit
                               THEN MaxLoopPages ELSE FeedPageLimit}

InitFetch == call \in LoopCalls /\ Idle

\* the request raised (get_products) or answered with a status other than
\* 200 (fetch raises HTTPException): the exception leaves the loop
Raise(log) == [call EXCEPT !.log = log, !.done = TRUE, !.raised = TRUE]

\* one turn of get_products_paginated's loop, up to the next page request or
\* the return
GetProductsPage ==
  /\ call.fn = "get_products_paginated" /\ ~call.done
  /\ MorePages(call.pages, call.max_pages)
  /\ \E p \in FeedPages :
       LET sent == IF Truthy(call.cursor) THEN call.cursor ELSE NoText
           log == Append(call.log, [sent |-> sent, got |-> p])
           items == extend(call.items, p.items)
           pages == call.pages + 1
           ends == ~Truthy(p.cursor) \/ ~MorePages(pages, call.max_pages)
       IN  call' = IF ~p.ok
                   THEN Raise(log)
                   ELSE [call EXCEPT !.log = log, !.items = items,
                                     !.cursor = p.cursor, !.pages = pages,
                                     !.done = ends,
                                     !.ret = IF ends THEN items ELSE << >>]
  /\ UNCHANGED <<pc, req, locals, calls, resp>>

\* one turn of fetch's loop
FetchPage ==
  /\ call.fn = "fetch" /\ ~call.done
  /\ Truthy(call.cursor) /\ MorePages(call.pages, call.max_pages)
  /\ \E p \in FeedPages :
       LET log == Append(call.log, [sent |-> call.cursor, got |-> p])
           items == extend(call.items, p.items)
           pages == call.pages + 1
           ends == ~(Truthy(p.cursor) /\ MorePages(pages, call.max_pages))
       IN  call' = IF ~p.ok
                   THEN Raise(log)
                   ELSE [call EXCEPT !.log = log, !.items = items,
                                     !.cursor = p.cursor, !.pages = pages,
                                     !.done = ends,
                                     !.ret = IF ends THEN items ELSE << >>]
  /\ UNCHANGED <<pc, req, locals, calls, resp>>

NextFetch ==
  \/ GetProductsPage
  \/ FetchPage

SpecFetch == InitFetch /\ [][NextFetch]_vars

(***************************************************************************)
(* /aws/prices on the PriceList it fetched (aws.py), and                   *)
(* _min_price_from_aws (compare.py) on its raw answer.                     *)
(*                                                                         *)
(* A PriceList element is a JSON text: [json, dims], json FALSE for a text *)
(* json.loads rejects, dims the on-demand price dimensions in iteration    *)
(* order, each [unit, usd] with Absent for a missing key.                  *)
(***************************************************************************)
Units == {Absent, "Hrs", "GB-Mo"}
UsdTexts == {Absent, "", "abc", "1", "2"}
Dims == [unit : Units, usd : UsdTexts]
BadJson == [json |-> FALSE, dims |-> << >>]

DimLists(n) == UNION {[1 .. k -> Dims] : k \in 0 .. n}

\* the PriceLists of total size at most n: an element with k price
\* dimensions counts k + 1
RECURSIVE PriceLists(_)
PriceLists(n) ==
  IF n <= 0 THEN {<< >>}
  ELSE {<< >>} \cup
       UNION {{<<item>> \o rest : rest \in PriceLists(n - 1 - Len(item.dims))} :
                item \in {BadJson} \cup
                         {[json |-> TRUE, dims |-> d] : d \in DimLists(n - 1)}}

UnitAsWritten(unit) == IF unit = Absent THEN "" ELSE unit

\* (dim.get("unit") or "").lower()
lower(unit) ==
  CASE unit = Absent -> ""
    [] unit = "Hrs" -> "hrs"
    [] unit = "GB-Mo" -> "gb-mo"
    [] OTHER -> unit

\* unit.startswith("hr")
startswith_hr(unit) == unit \in {"hr", "hrs"}

\* the value of price_hr after the loops over one element's dimensions;
\* ValueError when float(usd) raises
RECURSIVE price_hr(_)
price_hr(dims) ==
  IF dims = << >> THEN None
  ELSE IF Head(dims).usd \notin {Absent, ""} /\ startswith_hr(lower(Head(dims).unit))
       THEN float(Head(dims).usd)
       ELSE price_hr(Tail(dims))

\* parse_on_demand: [raised, out], out the ondemand_price_hour_usd of the
\* entries appended
RECURSIVE parse_on_demand(_)
parse_on_demand(items) ==
  IF items = << >> THEN [raised |-> FALSE, out |-> << >>]
  ELSE IF ~Head(items).json THEN parse_on_demand(Tail(items))
  ELSE IF price_hr(Head(items).dims) = ValueError
       THEN [raised |-> TRUE, out |-> << >>]
       ELSE LET rest == parse_on_demand(Tail(items))
            IN  IF rest.raised THEN rest
                ELSE [raised |-> FALSE,
                      out |-> <<price_hr(Head(items).dims)>> \o rest.out]

\* the answer of /aws/prices once get_products_paginated has returned items:
\* an exception of the handler is a 500
get_prices(items, raw) ==
  IF raw
  THEN IF \E i \in 1 .. Len(items) : ~items[i].json
       THEN [status |-> 500, items |-> << >>]
       ELSE [status |-> 200, items |-> items]
  ELSE IF parse_on_demand(items).raised
       THEN [status |-> 500, items |-> << >>]
       ELSE [status |-> 200, items |-> parse_on_demand(items).out]

\* dim.get("pricePerUnit", {}).get("USD") of every dimension of every item
UsdOf(items) ==
  [i \in 1 .. Len(items) |->
     [j \in 1 .. Len(items[i].dims) |-> items[i].dims[j].usd]]

ExtractCalls ==
  {Pending("get_prices", [items |-> l, raw |-> raw]) :
     l \in PriceLists(MaxRaw), raw \in BOOLEAN}
    \cup {Pending("_min_price_from_aws", [items |-> l]) : l \in PriceLists(MaxRaw)}

InitExtract == call \in ExtractCalls /\ Idle

ApplyGetPrices ==
  /\ ~call.done /\ call.fn = "get_prices"
  /\ Return(get_prices(call.args.items, call.args.raw))

\* _min_price_from_aws on the answer of /aws/prices?...&raw=true
ApplyMinPriceFromAws ==
  /\ ~call.done /\ call.fn = "_min_price_from_aws"
  /\ LET r == get_prices(call.args.items, TRUE)
     IN  Return(_min_price_from_aws(Http(r.status, UsdOf(r.items))))

NextExtract ==
  \/ ApplyGetPrices
  \/ ApplyMinPriceFromAws

SpecExtract == InitExtract /\ [][NextExtract]_vars

(***************************************************************************)
(* Claims about the helper functions (checked under SpecHelpers).          *)
(***************************************************************************)
StrictlyPositive(v) == v.t = "num" /\ v.v > 0

Elems(l) == {l[i] : i \in 1 .. Len(l)}

\* C1: when the list holds at least one strictly positive amount,
\* _min_nonzero_or_none returns the least of the strictly positive amounts;
\* a zero or negative amount (or NaN, or None) is never returned.
C1_MinOfPositives ==
  Returned("_min_nonzero_or_none") =>
    LET pos == {v \in Elems(call.args.vals) : StrictlyPositive(v)}
    IN  pos /= {} =>
          /\ call.ret \in pos
          /\ \A v \in pos : call.ret.v <= v.v

\* -5 and 3 present gives 3: a smaller non-positive amount was passed over
C1_Witness ==
  /\ Returned("_min_nonzero_or_none")
  /\ \E v \in Elems(call.args.vals) : v.t = "num" /\ v.v < 0
  /\ \E v \in Elems(call.args.vals) : StrictlyPositive(v)
  /\ StrictlyPositive(call.ret)

\* C2: when the list holds no strictly positive amount, _min_nonzero_or_none
\* returns the arithmetic minimum of the amounts present, and None when no
\* amount is present.
C2_MinOfNonPositives ==
  Returned("_min_nonzero_or_none") =>
    LET present == {v \in Elems(call.args.vals) : v.t /= "none"}
        numbers == {v \in present : v.t = "num"}
    IN  (\A v \in present : ~StrictlyPositive(v)) =>
          /\ present = {} => call.ret = None
          /\ numbers /= {} =>
               /\ call.ret \in numbers
               /\ \A v \in numbers : call.ret.v <= v.v

\* C3: _cheapest returns "Same" when both amounts are absent, the present
\* side when exactly one is absent, and for two numbers the strictly smaller
\* side, "Same" when they are equal.
C3_Cheapest ==
  Returned("_cheapest") =>
    LET a == call.args.a
        z == call.args.z
    IN  /\ (a = None /\ z = None) => call.ret = "Same"
        /\ (a /= None /\ z = None) => call.ret = "AWS"
        /\ (a = None /\ z /= None) => call.ret = "Azure"
        /\ (a.t = "num" /\ z.t = "num" /\ a.v < z.v) => call.ret = "AWS"
        /\ (a.t = "num" /\ z.t = "num" /\ z.v < a.v) => call.ret = "Azure"
        /\ (a.t = "num" /\ z.t = "num" /\ a.v = z.v) => call.ret = "Same"

\* an absent side lost to a present one, although 0 would have been smaller
C3_Witness ==
  /\ Returned("_cheapest")
  /\ call.args.a = None
  /\ StrictlyPositive(call.args.z)
  /\ call.ret = "Azure"

NonEmptyAfterTrimming(o) == o.some /\ \E i \in 1 .. Len(o.s) : o.s[i] \notin Whitespace

\* C10 as stated: an override that is non-empty after trimming is returned
\* verbatim, chunk for chunk.
C10_OverrideVerbatim ==
  Returned("map_azure_region") =>
    (NonEmptyAfterTrimming(call.args.azure_region) =>
       call.ret = call.args.azure_region.s)

\* C10 as amended: an override that is non-empty after trimming is returned
\* with its leading and trailing whitespace removed and nothing else changed,
\* whatever the source region; an override without surrounding whitespace is
\* therefore returned verbatim.
C10_OverrideTrimmed ==
  Returned("map_azure_region") =>
    LET o == call.args.azure_region
    IN  NonEmptyAfterTrimming(o) =>
          /\ \E i \in 1 .. Len(o.s) : \E j \in i .. Len(o.s) :
               /\ call.ret = SubSeq(o.s, i, j)
               /\ \A k \in 1 .. (i - 1) : o.s[k] \in Whitespace
               /\ \A k \in (j + 1) .. Len(o.s) : o.s[k] \in Whitespace
               /\ o.s[i] \notin Whitespace
               /\ o.s[j] \notin Whitespace
          /\ (o.s[1] \notin Whitespace /\ o.s[Len(o.s)] \notin Whitespace)
               => call.ret = o.s

\* the override wins over a source region that the table maps elsewhere
C10_Witness ==
  /\ Returned("map_azure_region")
  /\ call.args.aws_region = <<"mars-1">>
  /\ call.args.azure_region = Str(<<" ", "westus2", " ">>)
  /\ call.ret = <<"westus2">>

(***************************************************************************)
(* Claims about the comparison endpoints (checked under Spec).             *)
(***************************************************************************)
IsVmRequest == req.endpoint = "service" /\ req.service_type = "vm"

\* the handler ran to its end: its last provider call returned
HandlerEnded ==
  pc = "done" /\ calls /= << >> /\ calls[Len(calls)].kind = "http"

BothAbsent == locals["aws_price"] = None /\ locals["azure_price"] = None

\* C4: in the fallback-to-zero scenarios (db-sql, load-balancer), when exactly
\* one provider's price is None the response shows 0 for that provider and
\* cheapest_provider names the other provider: the winner comes from the
\* prices before the fallback.
C4_FallbackNeverWins ==
  (HandlerEnded /\ req.endpoint \in {"db-sql", "load-balancer"}) =>
    LET a == locals["aws_price"]
        z == locals["azure_price"]
    IN  /\ resp.status = 200
        /\ (a = None /\ z /= None) => (resp.aws = Num(0) /\ resp.cheapest = "Azure")
        /\ (a /= None /\ z = None) => (resp.azure = Num(0) /\ resp.cheapest = "AWS")
        /\ (a.t = "num" /\ z.t = "num") =>
             /\ resp.aws = a /\ resp.azure = z
             /\ resp.cheapest = (IF a.v < z.v THEN "AWS"
                                 ELSE IF z.v < a.v THEN "Azure" ELSE "Same")

\* AWS has no price and is shown as 0, below Azure's price, and Azure wins
C4_Witness ==
  /\ HandlerEnded
  /\ req.endpoint = "load-balancer"
  /\ locals["aws_price"] = None
  /\ locals["azure_price"] = Num(2)
  /\ resp.aws = Num(0)
  /\ resp.azure = Num(2)
  /\ resp.cheapest = "Azure"

HasSkuFacet(q) == \E f \in q.facets : f[1] = "sku_name"

\* C5: in the VM scenario Azure is queried with the SKU facet and, only once
\* that query has returned no price, once more with the SKU facet dropped;
\* the Azure price of the result is the first query's if it has one, otherwise
\* the broadened query's, and cheapest_provider is computed from it and the
\* AWS price.
C5_VmBroadening ==
  IsVmRequest =>
    /\ Len(calls) <= 3
    /\ Len(calls) >= 2 => (calls[2].q.to = "azure" /\ HasSkuFacet(calls[2].q))
    /\ Len(calls) = 3 =>
         /\ calls[2].kind = "http" /\ calls[2].price = None
         /\ calls[3].q = [calls[2].q EXCEPT !.facets = {}]
    /\ (pc = "done" /\ resp.status = 200) =>
         /\ calls[2].price = None => Len(calls) = 3
         /\ resp.aws = calls[1].price
         /\ resp.azure = (IF calls[2].price /= None THEN calls[2].price
                          ELSE calls[3].price)
         /\ resp.cheapest = _cheapest(resp.aws, resp.azure)

\* the SKU query found nothing, the broadened one found a price that wins
C5_Witness ==
  /\ IsVmRequest
  /\ pc = "done" /\ resp.status = 200
  /\ Len(calls) = 3
  /\ calls[2].price = None
  /\ calls[3].price = Num(1)
  /\ calls[1].price = Num(2)
  /\ resp.azure = Num(1)
  /\ resp.cheapest = "Azure"

Bound(n) == n \in DOMAIN locals
Present(n) == Bound(n) /\ locals[n] /= None

\* C6: a block-storage request ends in 404 exactly when both providers'
\* prices are absent; when at least one is present a ComparisonResult is
\* returned whose winner is the comparator's.
C6_BlockStorageNotFound ==
  (pc = "done" /\ req.endpoint = "block-storage") =>
    /\ resp.status = 404 <=>
         (Bound("aws_price") /\ Bound("azure_price") /\ BothAbsent)
    /\ (Present("aws_price") \/ Present("azure_price")) =>
         /\ resp.status = 200
         /\ resp.cheapest = _cheapest(locals["aws_price"], locals["azure_price"])

Failed(c) == c.kind = "raised" \/ (c.kind = "http" /\ c.status /= 200)

\* C7: every provider call that fails (a status other than 200, or a
\* client.get that raises on its timeout) yields an absent price, and the
\* request still ends with a response of its handler, not with the error.
C7_FailuresBecomeAbsent ==
  \A i \in 1 .. Len(calls) :
    Failed(calls[i]) =>
      /\ calls[i].price = None
      /\ pc = "done" => resp.status /= 500

NoFallbackScenario ==
  req.endpoint \in {"service", "egress", "block-storage", "dns"}

\* C8 as stated: in the scenarios without a fallback to zero (VM, storage,
\* egress, block storage, DNS), a request with both prices absent ends in 404.
C8_BothAbsentNotFound ==
  (HandlerEnded /\ NoFallbackScenario /\ BothAbsent) => resp.status = 404

\* C8 as amended: of those scenarios only block storage ends in 404 when both
\* prices are absent; VM, storage, egress and DNS return a ComparisonResult
\* with both prices null and cheapest_provider "Same".
C8_BothAbsentByScenario ==
  (HandlerEnded /\ NoFallbackScenario /\ BothAbsent) =>
    IF req.endpoint = "block-storage"
    THEN resp = Failure(404)
    ELSE /\ resp.status = 200
         /\ resp.aws = None /\ resp.azure = None
         /\ resp.cheapest = "Same"

\* a VM request whose three queries all found nothing still gets a result
C8_Witness ==
  /\ HandlerEnded /\ IsVmRequest
  /\ Len(calls) = 3
  /\ BothAbsent
  /\ resp.status = 200
  /\ resp.cheapest = "Same"

Rejected == pc = "done" /\ resp.status = 422 /\ calls = << >> /\ locals = << >>
Fetching == calls /= << >> /\ calls[1].q.max_pages = req.max_pages

SupportedLiteral ==
  req.endpoint = "service" => req.service_type \in {"vm", "storage"}

\* C9 as stated: every comparison endpoint accepts exactly the page counts
\* 1 .. 10, and rejects any other (or an unsupported service_type) before a
\* provider is queried.
C9_PagesOneToTen ==
  pc /= "idle" =>
    IF req.max_pages \in 1 .. 10 /\ SupportedLiteral THEN Fetching ELSE Rejected

\* C9 as amended: the comparison endpoints accept exactly the page counts
\* 1 .. 5, and az-coverage 1 .. 2; any other page count (or an unsupported
\* service_type) is rejected before a provider is queried.
C9_PagesOneToFive ==
  pc /= "idle" =>
    LET most == IF req.endpoint = "az-coverage" THEN 2 ELSE 5
    IN  IF req.max_pages \in 1 .. most /\ SupportedLiteral
        THEN Fetching /\ resp.status /= 422
        ELSE Rejected

\* a page count of 6, within 1 .. 10, is rejected without a fetch
C9_Witness ==
  /\ Rejected
  /\ req.endpoint = "egress"
  /\ req.max_pages = 6

(***************************************************************************)
(* Claims about the feed page loops (checked under SpecFetch).             *)
(***************************************************************************)
HasCursor(i) == call.log[i].got.cursor.some /\ call.log[i].got.cursor.s /= ""

\* C11: each page loop (get_products_paginated, fetch) issues at most
\* max_pages page requests and has ended once it has issued max_pages of
\* them, also when every page it got carried a continuation cursor.
C11_AtMostMaxPages ==
  /\ Len(call.log) <= call.max_pages
  /\ Len(call.log) = call.max_pages => call.done

\* a loop asked for several pages that ended at max_pages although every
\* page carried a cursor
C11_Witness ==
  /\ call.fn \in LoopFns /\ call.done /\ ~call.raised
  /\ call.max_pages >= 2 /\ Len(call.log) = call.max_pages
  /\ \A i \in 1 .. Len(call.log) : HasCursor(i)

RECURSIVE PagesInOrder(_)
PagesInOrder(n) ==
  IF n = 0 THEN << >> ELSE PagesInOrder(n - 1) \o call.log[n].got.items

\* C16: with every page answered successfully, a loop goes on exactly while
\* the last page carried a cursor and fewer than max_pages pages were
\* fetched, so that it issues min(max_pages, k) requests, k the first page
\* without a cursor, and returns the items of the fetched pages in page
\* order.
C16_PagesUntilNoCursor ==
  LET n == Len(call.log)
  IN  ~call.raised =>
        /\ \A i \in 1 .. n - 1 : HasCursor(i)
        /\ n <= call.max_pages
        /\ ~call.done => n < call.max_pages /\ (n > 0 => HasCursor(n))
        /\ call.done => /\ n >= 1
                        /\ n < call.max_pages => ~HasCursor(n)
                        /\ call.ret = PagesInOrder(n)

\* a loop that stopped at a page without a cursor before max_pages, having
\* fetched two pages with different items
C16_Witness ==
  /\ call.fn \in LoopFns /\ call.done /\ ~call.raised
  /\ Len(call.log) = 2 /\ call.max_pages > 2
  /\ call.log[1].got.items = <<"a">> /\ call.log[2].got.items = <<"b">>
  /\ call.ret = <<"a", "b">>

(***************************************************************************)
(* Claims about the queries of one comparison request (checked under Spec). *)
(***************************************************************************)
\* calls i < j went to the same provider for the same service
Requeries(i, j) ==
  /\ i < j
  /\ calls[i].q.to = calls[j].q.to
  /\ calls[i].q.service = calls[j].q.service

Providers == {"aws", "azure"}

PricedServices(to) == {calls[i].q.service : i \in {j \in 1 .. Len(calls) : calls[j].q.to = to}}

\* every provider has been queried, and az-coverage has queried two services
\* of each
OneFetchEach ==
  \A to \in Providers :
    Cardinality(PricedServices(to)) = IF req.endpoint = "az-coverage" THEN 2 ELSE 1

\* call j repeats call i, the call just before it, without its SKU facet
\* after i returned no price
SkuBroadening(i, j) ==
  /\ j = i + 1
  /\ calls[i].kind = "http" /\ calls[i].price = None
  /\ HasSkuFacet(calls[i].q)
  /\ calls[j].q = [calls[i].q EXCEPT !.facets = {}]

\* C12 as stated: a handler that ran to its end has fetched once per
\* provider and priced service, and a provider is queried a second time for
\* a service only in the VM scenario.
C12_SecondQueryOnlyForVm ==
  /\ HandlerEnded => OneFetchEach
  /\ \A i, j \in 1 .. Len(calls) : Requeries(i, j) => IsVmRequest

\* C12 amended: a handler that ran to its end has fetched once per provider
\* and priced service; a provider is queried a second time for a service
\* only by the VM scenario and the database scenario, only Azure, and only
\* as the SKU-broadening retry of a query that returned no price.
C12_SecondQueryOnlyBroadening ==
  /\ HandlerEnded => OneFetchEach
  /\ \A i, j \in 1 .. Len(calls) :
       Requeries(i, j) =>
         /\ IsVmRequest \/ req.endpoint = "db-sql"
         /\ calls[i].q.to = "azure"
         /\ SkuBroadening(i, j)

\* a database request that queried Azure a second time after the query with
\* the SKU found no price
C12_Witness ==
  /\ req.endpoint = "db-sql" /\ HandlerEnded
  /\ Len(calls) = 3
  /\ Requeries(2, 3) /\ SkuBroadening(2, 3)
  /\ calls[3].price = Num(1)

\* the filters of call i that carry value v
FiltersWith(i, v) ==
  {k \in 1 .. Len(calls[i].filters) : calls[i].filters[k].Value = v}

\* the values of the facets call i was made with
FacetValues(i) == {ChunksOf(f[2]) : f \in calls[i].q.facets}

\* C13: the filters sent to a provider's feed for a query hold exactly one
\* filter for every facet of the query that is not empty, no filter with an
\* empty value, and no two filters on the same field.
C13_OneFilterPerFacet ==
  \A i \in 1 .. Len(calls) :
    /\ \A v \in FacetValues(i) :
         Cardinality(FiltersWith(i, v)) = IF v = << >> THEN 0 ELSE 1
    /\ \A k, n \in 1 .. Len(calls[i].filters) :
         calls[i].filters[k].Field = calls[i].filters[n].Field => k = n

(***************************************************************************)
(* Claims about the price extraction (checked under SpecExtract).          *)
(***************************************************************************)
IsJson(item) == item.json

\* the dimension has an hourly unit and a USD amount
Qualifies(d) == d.unit = "Hrs" /\ d.usd \notin {Absent, ""}

\* the amount of the first qualifying dimension, None when there is none
FirstHourly(dims) ==
  LET js == {j \in 1 .. Len(dims) : Qualifies(dims[j])}
  IN  IF js = {} THEN None
      ELSE float(dims[CHOOSE j \in js : \A k \in js : j <= k].usd)

\* the price is the amount of a dimension of the PriceList that satisfies Pick
PriceFrom(price, Pick(_)) ==
  \E i \in 1 .. Len(call.args.items) :
    \E j \in 1 .. Len(call.args.items[i].dims) :
      /\ Pick(call.args.items[i].dims[j])
      /\ float(call.args.items[i].dims[j].usd) = price

AnyUnit(d) == d.usd /= Absent

\* every entry of the simplified view carries the amount of the element's
\* first hourly dimension with a USD amount
SimplifiedTakesFirstHourly ==
  (Returned("get_prices") /\ ~call.args.raw /\ call.ret.status = 200) =>
    LET valid == SelectSeq(call.args.items, IsJson)
    IN  /\ Len(call.ret.items) = Len(valid)
        /\ \A k \in 1 .. Len(valid) :
             call.ret.items[k] = FirstHourly(valid[k].dims)

Malformed(item) ==
  \/ ~item.json
  \/ \E j \in 1 .. Len(item.dims) :
       item.dims[j].usd /= Absent /\ float(item.dims[j].usd) = ValueError

\* a well-formed element with a strictly positive amount
Priced(item) ==
  /\ ~Malformed(item)
  /\ \E j \in 1 .. Len(item.dims) :
       item.dims[j].usd /= Absent /\ float(item.dims[j].usd).v > 0

\* C15: a malformed element never fails the request and costs only itself:
\* /aws/prices answers 200 on both paths, with an entry for every element
\* that is JSON, and the comparison pipeline still finds a price when a
\* well-formed element has one.
C15_MalformedItemOnlyDropped ==
  /\ Returned("get_prices") =>
       /\ call.ret.status = 200
       /\ Len(call.ret.items) = Len(SelectSeq(call.args.items, IsJson))
  /\ Returned("_min_price_from_aws") =>
       ((\E i \in 1 .. Len(call.args.items) : Priced(call.args.items[i]))
          => call.ret /= None)

====
